---- MODULE Spec2Model ----
(***************************************************************************)
(* LumaGradient: the application shell (App), the control panel (Controls) *)
(* and the interactive canvas preview (GradientPreview).                   *)
(*                                                                         *)
(* Numbers.  JavaScript numbers are modelled by integers in fixed point:   *)
(*   - position, angle            whole numbers (parseInt)                 *)
(*   - noise                      hundredths   (the slider step is 0.01)   *)
(*   - normalised x, y of a stop  1/NormScale  (0..NormScale is [0,1])     *)
(*   - pixel coordinates          1/PxScale of a CSS pixel                 *)
(*   - cos, sin                   thousandths  (TrigScale)                 *)
(* The pointer positions inside the canvas and the canvas sizes the model *)
(* enumerates are chosen so that the divisions of the handlers are exact.  *)
(***************************************************************************)
EXTENDS Integers, Sequences, FiniteSets, TLC

VARIABLES
    state,           \* App: AppState
    gradientConfig,  \* App: the published GradientConfig
    analysisData,    \* App: the last analysis result
    pending,         \* App: the uploads whose analyzeImageColors is awaited,
                     \* in the order of the uploads: [file, abandoned,
                     \* superseded]
    clipboard,       \* navigator.clipboard: the text last written to it
    alerted,         \* the message the handler that ran last showed, or Null
    downloaded,      \* the picture in the PNG file saved last
    onUpdate,        \* GradientPreview prop: is an onUpdate handler supplied
    rect,            \* canvas.getBoundingClientRect(): [width, height] in px
    draggingId,      \* GradientPreview state
    hoveredId,       \* GradientPreview state
    pointer,         \* canvas-local position of the last pointer event
    canvas,          \* the canvas backing store: [width, height, image]
    lastOp,          \* name of the handler that ran last
    emitted,         \* configurations that handler published (0 or 1)
    written          \* parts of the configuration object that handler was
                     \* given which it assigned to in place

vars == <<state, gradientConfig, analysisData, pending, clipboard, alerted,
          downloaded, onUpdate, rect, draggingId, hoveredId, pointer, canvas, lastOp,
          emitted, written>>

----------------------------------------------------------------------------
(* Scales and sentinels                                                    *)

NormScale == 10000
PxScale == 100
TrigScale == 1000
NoiseScale == 100

\* an absent optional field (ColorStop.x, ColorStop.y)
undefined == -1
\* the number NaN (0/0 in the palette position of a one-colour palette)
NaN == -1000000
\* null (no anchor, no analysis data)
Null == "null"

(* Bounds of the model                                                     *)
MaxStops == 3

----------------------------------------------------------------------------
(* types.ts                                                                *)

GradientType == {"linear", "radial", "conic", "mesh", "gaussian", "bezier", "noise"}

AppState == {"IDLE", "ANALYZING", "EDITING"}

ColorStop(id, color, position, x, y) ==
    [id |-> id, color |-> color, position |-> position, x |-> x, y |-> y]

INITIAL_CONFIG ==
    [type  |-> "linear",
     angle |-> 135,
     noise |-> 10,
     stops |-> << ColorStop("1", "#111111", 0, undefined, undefined),
                  ColorStop("2", "#FF5A19", 100, undefined, undefined) >>]

----------------------------------------------------------------------------
(* Inputs the environment supplies                                         *)

\* values of Math.random().toString(36).substr(2, 9): nothing keeps two
\* draws apart
RandomIds == {"r1", "r2"}
\* values of the pair (0.2 + Math.random() * 0.6, 0.2 + Math.random() * 0.6),
\* in 1/NormScale
RandomXY == {<<2000, 5000>>, <<5000, 5000>>}
\* e.target.value of the algorithm select
TypeInputs == GradientType
\* parseInt(e.target.value) of the angle slider
AngleInputs == {0, 135}
\* parseFloat(e.target.value) handed to handleNoiseChange, in hundredths
NoiseInputs == {0, 10, 150}
\* newPos handed to handlePositionChange
PositionInputs == {-10, 95, 150}
\* newColor handed to handleColorChange
ColorInputs == {"#ffffff"}

----------------------------------------------------------------------------
(* Array helpers                                                           *)

Indices(s) == 1..Len(s)

Last(s) == s[Len(s)]

\* Array.prototype.filter(s => s.id !== id)
RECURSIVE FilterOutId(_, _)
FilterOutId(stops, id) ==
    IF stops = << >> THEN << >>
    ELSE IF Head(stops).id # id
         THEN << Head(stops) >> \o FilterOutId(Tail(stops), id)
         ELSE FilterOutId(Tail(stops), id)

\* Math.min(a, b) and lastPos + 10, with NaN absorbing
Plus(a, b) == IF a = NaN \/ b = NaN THEN NaN ELSE a + b
MathMin(a, b) == IF a = NaN \/ b = NaN THEN NaN ELSE IF a < b THEN a ELSE b
MathMax(a, b) == IF a = NaN \/ b = NaN THEN NaN ELSE IF a > b THEN a ELSE b

----------------------------------------------------------------------------
(* GradientPreview: anchor layout                                          *)

HitRadius == 30

IsSpatial(type) == type = "mesh" \/ type = "gaussian"

\* <<cos, sin>> of (index / total) * 2 * PI in 1/TrigScale, for total <= 6
TrigTable ==
    << << <<1000, 0>> >>,
       << <<1000, 0>>, <<-1000, 0>> >>,
       << <<1000, 0>>, <<-500, 866>>, <<-500, -866>> >>,
       << <<1000, 0>>, <<0, 1000>>, <<-1000, 0>>, <<0, -1000>> >>,
       << <<1000, 0>>, <<309, 951>>, <<-809, 588>>, <<-809, -588>>, <<309, -951>> >>,
       << <<1000, 0>>, <<500, 866>>, <<-500, 866>>, <<-1000, 0>>, <<-500, -866>>,
          <<500, -866>> >>,
       << <<1000, 0>>, <<623, 782>>, <<-223, 975>>, <<-901, 434>>, <<-901, -434>>,
          <<-223, -975>>, <<623, -782>> >> >>

MathCos(index, total) == TrigTable[total][index + 1][1]
MathSin(index, total) == TrigTable[total][index + 1][2]

\* index is 0-based as in the source; width and height are in px, the
\* result is in 1/PxScale px.  config.type is read from the closure.
\* stop.x * width, stop.y * height
\* both coordinates scaled by the width
ExplicitCoords_Square(stop, width, height) ==
    [x |-> (stop.x * width * PxScale) \div NormScale,
     y |-> (stop.y * width * PxScale) \div NormScale]

ExplicitCoords(stop, width, height) ==
    [x |-> (stop.x * width * PxScale) \div NormScale,
     y |-> (stop.y * height * PxScale) \div NormScale]

\* the fallback layouts: a two-column grid (mesh), a circle (gaussian)
DefaultCoords(index, total, width, height) ==
    IF gradientConfig.type = "mesh"
    THEN LET row == index \div 2
             col == index % 2
         IN  [x |-> IF index >= 4 THEN (5 * width * PxScale) \div 10
                    ELSE ((IF col = 0 THEN 2 ELSE 8) * width * PxScale) \div 10,
              y |-> ((2 + row * 4) * height * PxScale) \div 10]
    ELSE LET dist == (2 * width * PxScale) \div 10
         IN  [x |-> (width * PxScale) \div 2 + (MathCos(index, total) * dist) \div TrigScale,
              y |-> (height * PxScale) \div 2 + (MathSin(index, total) * dist) \div TrigScale]

\* if (stop.x && stop.y): 0 taken for an absent coordinate
getStopCoords_Truthy(stop, index, total, width, height) ==
    IF stop.x # undefined /\ stop.x # 0 /\ stop.y # undefined /\ stop.y # 0
    THEN ExplicitCoords(stop, width, height)
    ELSE DefaultCoords(index, total, width, height)

getStopCoords(stop, index, total, width, height) ==
    IF stop.x # undefined /\ stop.y # undefined
    THEN ExplicitCoords(stop, width, height)
    ELSE DefaultCoords(index, total, width, height)

\* the anchor of the stop at 1-based position i, on the current canvas
Anchor(i) ==
    getStopCoords(gradientConfig.stops[i], i - 1, Len(gradientConfig.stops),
                  rect.width, rect.height)

\* dist * dist for dist = Math.sqrt(Math.pow(x - cx, 2) + Math.pow(y - cy, 2))
Dist2(x, y, coords) == (x - coords.x) * (x - coords.x) + (y - coords.y) * (y - coords.y)

\* the vertical distance left out of dist
InHitRadius_XOnly(x, y, coords) ==
    (x - coords.x) * (x - coords.x) < (HitRadius * PxScale) * (HitRadius * PxScale)

\* dist < 30
InHitRadius(x, y, coords) == Dist2(x, y, coords) < (HitRadius * PxScale) * (HitRadius * PxScale)

\* for (const stop of [...config.stops].reverse()): the id of the first stop
\* within the hit radius, scanning from position i down to 1; Null if none.
\* (config.stops.indexOf(stop) finds the stop's own index: the stops are
\* distinct objects.)
RECURSIVE HitScan(_, _, _)
HitScan(i, x, y) ==
    IF i = 0 THEN Null
    ELSE IF InHitRadius(x, y, Anchor(i)) THEN gradientConfig.stops[i].id
    ELSE HitScan(i - 1, x, y)

\* the stops scanned in draw order instead of reversed
RECURSIVE HitScanUp(_, _, _)
HitScanUp(i, x, y) ==
    IF i > Len(gradientConfig.stops) THEN Null
    ELSE IF InHitRadius(x, y, Anchor(i)) THEN gradientConfig.stops[i].id
    ELSE HitScanUp(i + 1, x, y)

HitTest_DrawOrder(x, y) == HitScanUp(1, x, y)

HitTest(x, y) == HitScan(Len(gradientConfig.stops), x, y)

----------------------------------------------------------------------------
(* GradientPreview: the render effect.  The backing store is modelled by   *)
(* the list of drawing operations that produced it: an operation is        *)
(* [op, nums, colors], its numbers in the fixed point of the header.       *)

\* window.devicePixelRatio || 1
devicePixelRatio == 2

\* What Math.random() returns to one run of the effect, in tenths: the runs
\* of two streams differ in every value they draw.
RandomStreams == {0, 9}

DrawOp(op, nums, colors) == [op |-> op, nums |-> nums, colors |-> colors]

\* the comparator a.position - b.position: a NaN difference orders nothing
ComesAfter(a, b) ==
    a.position # NaN /\ b.position # NaN /\ a.position > b.position

\* [...config.stops].sort(...): stable
RECURSIVE InsertSorted(_, _)
InsertSorted(sorted, stop) ==
    IF sorted = << >> THEN << stop >>
    ELSE IF ComesAfter(Last(sorted), stop)
         THEN InsertSorted(SubSeq(sorted, 1, Len(sorted) - 1), stop) \o << Last(sorted) >>
         ELSE sorted \o << stop >>

\* (the sorted prefix is bound once, then the last stop inserted)
RECURSIVE SortStops(_)
SortStops(stops) ==
    IF stops = << >> THEN << >>
    ELSE CHOOSE result \in {InsertSorted(sorted, Last(stops)) :
                               sorted \in {SortStops(SubSeq(stops, 1, Len(stops) - 1))}} : TRUE

Thrown == << DrawOp("throw", << >>, << >>) >>

HasThrown(ops) == ops # << >> /\ Last(ops).op = "throw"

\* gradient.addColorStop(stop.position / 100, stop.color) raises for an
\* offset outside [0, 1]
OffsetAccepted(stop) ==
    stop.position # NaN /\ stop.position >= 0 /\ stop.position <= 100

\* sortedStops.forEach(stop => gradient.addColorStop(...)); fillRect
GradientFill(op, nums, sortedStops) ==
    IF \E i \in Indices(sortedStops) : ~OffsetAccepted(sortedStops[i])
    THEN Thrown
    ELSE << DrawOp(op,
                   nums \o [i \in Indices(sortedStops) |-> sortedStops[i].position],
                   [i \in Indices(sortedStops) |-> sortedStops[i].color]) >>

\* one radial blob per stop, in insertion order, over the first sorted colour
MeshPass(sortedStops) ==
    IF sortedStops = << >> THEN Thrown
    ELSE << DrawOp("fillRect", << >>, << sortedStops[1].color >>) >>
         \o [i \in Indices(gradientConfig.stops) |->
                LET stop == gradientConfig.stops[i]
                    coords == getStopCoords(stop, i - 1, Len(gradientConfig.stops),
                                            rect.width, rect.height)
                    radius == (rect.width * PxScale
                               * (IF gradientConfig.type = "mesh" THEN 8 ELSE 6)) \div 10
                IN  DrawOp(IF i = 1 THEN "blob source-over" ELSE "blob screen",
                           << coords.x, coords.y, radius >>, << stop.color >>)]

\* the blobs displaced by a random offset
MeshPass_Organic(sortedStops, d) ==
    [i \in Indices(MeshPass(sortedStops)) |->
        LET blob == MeshPass(sortedStops)[i]
        IN  IF Len(blob.nums) = 0 THEN blob
            ELSE [blob EXCEPT !.nums = << blob.nums[1] + d * PxScale,
                                          blob.nums[2] + d * PxScale,
                                          blob.nums[3] >>]]

\* one wave per sorted stop after the first; each control point is displaced
\* by Math.random() * 400
BezierPass(sortedStops, d) ==
    IF sortedStops = << >> THEN Thrown
    ELSE << DrawOp("fillRect", << >>, << sortedStops[1].color >>) >>
         \o [k \in 1..(Len(sortedStops) - 1) |->
                LET yStart == (k * rect.height * PxScale) \div Len(sortedStops)
                    jitter == (d * 400 * PxScale) \div 10
                    next   == IF k + 2 < Len(sortedStops) THEN k + 2 ELSE Len(sortedStops)
                IN  DrawOp("wave",
                           << yStart,
                              yStart - 200 * PxScale + jitter,
                              yStart + 200 * PxScale - jitter >>,
                           << sortedStops[k + 1].color, sortedStops[next].color >>)]

\* the diagonal gradient, then the pixels of
\* getImageData(0, 0, width, height), a region in buffer pixels, moved by
\* (Math.random() - 0.5) * noiseIntensity + val * 20
NoisePass(sortedStops, d) ==
    LET linear == GradientFill("linear diagonal", << >>, sortedStops)
    IN  IF HasThrown(linear) THEN linear
        ELSE linear \o << DrawOp("perturb",
                                 << (d - 5) * 40, rect.width, rect.height >>,
                                 << >>) >>

\* the blobs of every type displaced at random
TypePass_Organic(sortedStops, d) ==
    IF gradientConfig.type = "linear"
    THEN GradientFill("linear", << gradientConfig.angle >>, sortedStops)
    ELSE IF gradientConfig.type = "radial"
    THEN GradientFill("radial", << >>, sortedStops)
    ELSE IF gradientConfig.type = "conic"
    THEN GradientFill("conic", << gradientConfig.angle >>, sortedStops)
    ELSE IF IsSpatial(gradientConfig.type)
    THEN MeshPass_Organic(sortedStops, d)
    ELSE IF gradientConfig.type = "bezier"
    THEN BezierPass(sortedStops, d)
    ELSE NoisePass(sortedStops, d)

\* the branch of the effect that config.type selects
TypePass(sortedStops, d) ==
    IF gradientConfig.type = "linear"
    THEN GradientFill("linear", << gradientConfig.angle >>, sortedStops)
    ELSE IF gradientConfig.type = "radial"
    THEN GradientFill("radial", << >>, sortedStops)
    ELSE IF gradientConfig.type = "conic"
    THEN GradientFill("conic", << gradientConfig.angle >>, sortedStops)
    ELSE IF IsSpatial(gradientConfig.type)
    THEN MeshPass(sortedStops)
    ELSE IF gradientConfig.type = "bezier"
    THEN BezierPass(sortedStops, d)
    ELSE NoisePass(sortedStops, d)

\* n = (Math.random() - 0.5) * intensity, in 1/1000
GrainN(d) == (d - 5) * gradientConfig.noise * 40

\* a Uint8ClampedArray element set to x / 1000: the nearest whole number,
\* the even one of two equally near
ToUint8Clamped(x) ==
    LET c == MathMax(0, MathMin(255000, x))
        q == c \div 1000
        r == c % 1000
    IN  IF r < 500 THEN q
        ELSE IF r > 500 THEN q + 1
        ELSE IF q % 2 = 0 THEN q ELSE q + 1

\* what the grain loop makes of the pixel <<R, G, B, A>> with the draw n
GrainPixel(pixel, n) ==
    << ToUint8Clamped(MathMax(0, MathMin(255000, pixel[1] * 1000 + n))),
       ToUint8Clamped(MathMax(0, MathMin(255000, pixel[2] * 1000 + n))),
       ToUint8Clamped(MathMax(0, MathMin(255000, pixel[3] * 1000 + n))),
       pixel[4] >>

\* pixels <<R, G, B, A>> of ctx.getImageData after the type's pass
PixelSamples == {<<0, 0, 0, 255>>, <<1, 128, 254, 255>>, <<255, 255, 255, 0>>}

\* the check of the type left out
GrainPass_AnyType(d) ==
    IF gradientConfig.noise > 0
    THEN << DrawOp("grain", << GrainN(d) >>, << >>) >>
    ELSE << >>

GrainPass(d) ==
    IF gradientConfig.noise > 0 /\ gradientConfig.type # "noise"
    THEN << DrawOp("grain", << GrainN(d) >>, << >>) >>
    ELSE << >>

\* a disc and a ring per stop, a glow around the hovered or dragged one
HandlesPass ==
    IF IsSpatial(gradientConfig.type)
    THEN [i \in Indices(gradientConfig.stops) |->
            LET stop == gradientConfig.stops[i]
                coords == getStopCoords(stop, i - 1, Len(gradientConfig.stops),
                                        rect.width, rect.height)
            IN  DrawOp(IF stop.id = hoveredId \/ stop.id = draggingId
                       THEN "handle glow" ELSE "handle",
                       << coords.x, coords.y >>, << stop.color >>)]
    ELSE << >>

\* the grain and the handles follow unless the type's branch has thrown
Passes(typePass, d) ==
    IF HasThrown(typePass) THEN typePass
    ELSE typePass \o GrainPass(d) \o HandlesPass

\* a run of the effect that returned before it touched the canvas
Untouched == [width |-> 0, height |-> 0, image |-> << >>]

\* the check of rect.width and rect.height left out
render_AnySize(d) ==
    [width  |-> rect.width * devicePixelRatio,
     height |-> rect.height * devicePixelRatio,
     image  |-> << DrawOp("clearRect", << >>, << >>) >>
                \o CHOOSE ops \in
                      {Passes(typePass, d) :
                         typePass \in {TypePass(sortedStops, d) :
                             sortedStops \in {SortStops(gradientConfig.stops)}}} : TRUE]

\* what one run of the effect, drawing from random stream d, makes of the
\* canvas (sortedStops and the type's pass are each computed once)
render(d) ==
    IF rect.width = 0 \/ rect.height = 0 THEN Untouched
    ELSE [width  |-> rect.width * devicePixelRatio,
          height |-> rect.height * devicePixelRatio,
          image  |-> << DrawOp("clearRect", << >>, << >>) >>
                     \o CHOOSE ops \in
                           {Passes(typePass, d) :
                              typePass \in {TypePass(sortedStops, d) :
                                  sortedStops \in {SortStops(gradientConfig.stops)}}} : TRUE]

\* the canvas after a run of the effect
Painted(before, drawn) == IF drawn = Untouched THEN before ELSE drawn

\* useEffect(..., [config, draggingId, hoveredId]): runs after a handler that
\* published a configuration or changed the dragged or hovered anchor
useEffect ==
    IF emitted' = 1 \/ draggingId' # draggingId \/ hoveredId' # hoveredId
    THEN \E d \in RandomStreams : canvas' = Painted(canvas, render(d)')
    ELSE UNCHANGED canvas

----------------------------------------------------------------------------
(* Controls                                                                *)

\* the parts in which the object a handler was given differs, after the
\* handler, from what it was before
Written(before, after) ==
    {f \in {"type", "angle", "noise"} : before[f] # after[f]}
    \cup (IF Len(before.stops) # Len(after.stops) THEN {"stops"} ELSE {})
    \cup {"stops[" \o ToString(i - 1) \o "]" :
            i \in {k \in Indices(before.stops) \cap Indices(after.stops) :
                      before.stops[k] # after.stops[k]}}

\* onChange(config), onChange being App's setGradientConfig, by a handler
\* that leaves the object it was given as left
PublishLeaving(op, config, left) ==
    /\ gradientConfig' = config
    /\ lastOp' = op
    /\ emitted' = 1
    /\ written' = Written(gradientConfig, left)

\* the handlers build what they publish from copies ({ ...config },
\* [...config.stops], map, filter): none assigns to what it was given
Publish(op, config) == PublishLeaving(op, config, gradientConfig)

NoPublish(op) ==
    /\ UNCHANGED gradientConfig
    /\ lastOp' = op
    /\ emitted' = 0
    /\ written' = {}

Mounted == state = "EDITING"

ControlsFrame ==
    /\ UNCHANGED <<state, analysisData, pending, clipboard, downloaded,
                   onUpdate, rect, draggingId, hoveredId, pointer>>
    /\ alerted' = Null
    /\ useEffect

handleTypeChange(type) ==
    /\ Mounted
    /\ Publish("handleTypeChange", [gradientConfig EXCEPT !.type = type])
    /\ ControlsFrame

handleAngleChange(value) ==
    /\ Mounted
    /\ Publish("handleAngleChange", [gradientConfig EXCEPT !.angle = value])
    /\ ControlsFrame

handleNoiseChange(value) ==
    /\ Mounted
    /\ Publish("handleNoiseChange", [gradientConfig EXCEPT !.noise = value])
    /\ ControlsFrame

SetColor(stops, id, newColor) ==
    [i \in Indices(stops) |->
        IF stops[i].id = id THEN [stops[i] EXCEPT !.color = newColor] ELSE stops[i]]

\* the colour assigned to the stop it was given, then a copy published
handleColorChange_InPlace(id, newColor) ==
    /\ Mounted
    /\ PublishLeaving("handleColorChange",
                      [gradientConfig EXCEPT !.stops = SetColor(@, id, newColor)],
                      [gradientConfig EXCEPT !.stops = SetColor(@, id, newColor)])
    /\ ControlsFrame

handleColorChange(id, newColor) ==
    /\ Mounted
    /\ Publish("handleColorChange",
               [gradientConfig EXCEPT !.stops = SetColor(@, id, newColor)])
    /\ ControlsFrame

SetPosition(stops, id, newPos) ==
    [i \in Indices(stops) |->
        IF stops[i].id = id THEN [stops[i] EXCEPT !.position = newPos] ELSE stops[i]]

handlePositionChange(id, newPos) ==
    /\ Mounted
    /\ Publish("handlePositionChange",
               [gradientConfig EXCEPT !.stops = SetPosition(@, id, newPos)])
    /\ ControlsFrame

removeStop(id) ==
    /\ Mounted
    /\ IF Len(gradientConfig.stops) <= 2
       THEN NoPublish("removeStop")
       ELSE Publish("removeStop",
                    [gradientConfig EXCEPT !.stops = FilterOutId(@, id)])
    /\ ControlsFrame

NewStopPosition(stops) == MathMin(Plus(Last(stops).position, 10), 100)

\* config.stops[config.stops.length - 1].position throws on an empty list:
\* the handler ends there and publishes nothing
addStop(newId, x, y) ==
    /\ Mounted
    /\ Len(gradientConfig.stops) < MaxStops
    /\ IF gradientConfig.stops = << >>
       THEN NoPublish("addStop")
       ELSE Publish("addStop",
                    [gradientConfig EXCEPT !.stops =
                        Append(@, ColorStop(newId, "#ffffff",
                                            NewStopPosition(@), x, y))])
    /\ ControlsFrame

StopIds == {gradientConfig.stops[i].id : i \in Indices(gradientConfig.stops)}

----------------------------------------------------------------------------
(* GradientPreview: interaction handlers.  x, y are e.clientX - rect.left  *)
(* and e.clientY - rect.top in 1/PxScale px.                               *)

PreviewFrame ==
    /\ UNCHANGED <<state, analysisData, pending, clipboard, downloaded,
                   onUpdate, rect>>
    /\ alerted' = Null
    /\ useEffect

\* the check of config.type left out
handleMouseDown_AnyType(x, y) ==
    /\ Mounted
    /\ pointer' = <<x, y>>
    /\ draggingId' =
          IF ~onUpdate THEN draggingId
          ELSE IF HitTest(x, y) # Null THEN HitTest(x, y)
          ELSE draggingId
    /\ NoPublish("handleMouseDown")
    /\ UNCHANGED hoveredId
    /\ PreviewFrame

handleMouseDown(x, y) ==
    /\ Mounted
    /\ pointer' = <<x, y>>
    /\ draggingId' =
          IF ~IsSpatial(gradientConfig.type) THEN draggingId
          ELSE IF ~onUpdate THEN draggingId
          ELSE IF HitTest(x, y) # Null THEN HitTest(x, y)
          ELSE draggingId
    /\ NoPublish("handleMouseDown")
    /\ UNCHANGED hoveredId
    /\ PreviewFrame

\* v / size, the clamp left out
Normalize_NoClamp(v, size) == (v * NormScale) \div (size * PxScale)

\* Math.max(0, Math.min(1, v / size)) in 1/NormScale
Normalize(v, size) == MathMax(0, MathMin(NormScale, (v * NormScale) \div (size * PxScale)))

DragStops(stops, id, normalizedX, normalizedY) ==
    [i \in Indices(stops) |->
        IF stops[i].id = id
        THEN [stops[i] EXCEPT !.x = normalizedX, !.y = normalizedY]
        ELSE stops[i]]

\* if (onUpdate) in place of if (draggingId && onUpdate)
handleMouseMove_PublishesUndragged(x, y) ==
    /\ Mounted
    /\ pointer' = <<x, y>>
    /\ IF ~IsSpatial(gradientConfig.type)
       THEN /\ NoPublish("handleMouseMove")
            /\ UNCHANGED hoveredId
       ELSE /\ hoveredId' = IF draggingId = Null THEN HitTest(x, y) ELSE hoveredId
            /\ IF onUpdate
               THEN Publish("handleMouseMove",
                            [gradientConfig EXCEPT !.stops =
                                DragStops(@, draggingId,
                                          Normalize(x, rect.width),
                                          Normalize(y, rect.height))])
               ELSE NoPublish("handleMouseMove")
    /\ UNCHANGED draggingId
    /\ PreviewFrame

handleMouseMove(x, y) ==
    /\ Mounted
    /\ pointer' = <<x, y>>
    /\ IF ~IsSpatial(gradientConfig.type)
       THEN /\ NoPublish("handleMouseMove")
            /\ UNCHANGED hoveredId
       ELSE /\ hoveredId' = IF draggingId = Null THEN HitTest(x, y) ELSE hoveredId
            /\ IF draggingId # Null /\ onUpdate
               THEN Publish("handleMouseMove",
                            [gradientConfig EXCEPT !.stops =
                                DragStops(@, draggingId,
                                          Normalize(x, rect.width),
                                          Normalize(y, rect.height))])
               ELSE NoPublish("handleMouseMove")
    /\ UNCHANGED draggingId
    /\ PreviewFrame

handleMouseUp ==
    /\ Mounted
    /\ draggingId' = Null
    /\ NoPublish("handleMouseUp")
    /\ UNCHANGED <<hoveredId, pointer>>
    /\ PreviewFrame

\* pointer-leave handled like pointer-up
handleMouseLeave_KeepsHover ==
    /\ Mounted
    /\ draggingId' = Null
    /\ NoPublish("handleMouseLeave")
    /\ UNCHANGED <<hoveredId, pointer>>
    /\ PreviewFrame

handleMouseLeave ==
    /\ Mounted
    /\ draggingId' = Null
    /\ hoveredId' = Null
    /\ NoPublish("handleMouseLeave")
    /\ UNCHANGED pointer
    /\ PreviewFrame

\* pointer positions off the anchors: the canvas centre, a point half a pixel
\* outside the left bottom corner
PointerGrid == {<<10000, 5000>>, <<-50, 10050>>}

AnchorPoints == {<<Anchor(i).x, Anchor(i).y>> : i \in Indices(gradientConfig.stops)}

\* where the pointer may be pressed or hover / where it may be dragged to
PressPoints == PointerGrid \cup AnchorPoints
MovePoints == IF draggingId = Null THEN PointerGrid \cup AnchorPoints ELSE PointerGrid

PointerNext ==
    \/ \E p \in PressPoints : handleMouseDown(p[1], p[2])
    \/ \E p \in MovePoints : handleMouseMove(p[1], p[2])
    \/ handleMouseUp
    \/ handleMouseLeave

----------------------------------------------------------------------------
(* geminiService and App                                                   *)

\* uploads whose analysis may be awaited at once
MaxPending == 2

\* The image files the model uploads, named by what the service answers
\* for them: a photo with a three-colour palette, one with a single colour,
\* one with an empty colour list, one whose JSON has no colour list, and one
\* for which the call fails.
Files == {"photo", "mono", "blank", "garbled", "offline"}

\* the value of JSON.parse(jsonStr) for the file, or ApiError when
\* generateContent throws or answers without text
ApiError == "error"

Response(file) ==
    IF file = "photo"
    THEN [colors |-> << "#203040", "#8090A0", "#F0E0D0" >>,
          mood |-> "Calm", suggestedName |-> "Harbour"]
    ELSE IF file = "mono"
    THEN [colors |-> << "#203040" >>, mood |-> "Still", suggestedName |-> "Ink"]
    ELSE IF file = "blank"
    THEN [colors |-> << >>, mood |-> "Empty", suggestedName |-> "Void"]
    ELSE IF file = "vivid"
    THEN [colors |-> << "#100000", "#200000", "#300000", "#400000",
                        "#500000", "#600000", "#700000" >>,
          mood |-> "Loud", suggestedName |-> "Carnival"]
    ELSE [mood |-> "Calm", suggestedName |-> "Harbour"]

\* the catch block's answer
Fallback ==
    [colors |-> << "#FF5A19", "#FFDBCA", "#111111", "#7B7B7B", "#EEEEEE" >>,
     mood |-> "Fallback Error", suggestedName |-> "System Default"]

analyzeImageColors_Uncaught(file) == Response(file)

analyzeImageColors(file) ==
    IF file = "offline" THEN Fallback ELSE Response(file)

\* useState<GeminiAnalysisResult | null>(null)
NoAnalysis == [null |-> TRUE]

\* Math.round((index / (length - 1)) * 100): 0 / 0 is NaN
SpreadPosition(index, length) ==
    IF length = 1 THEN NaN
    ELSE (200 * index + (length - 1)) \div (2 * (length - 1))

\* result.colors.map((color, index) => ({ id: `gen-${index}`, color, position }))
PaletteStops(colors) ==
    [i \in Indices(colors) |->
        ColorStop("gen-" \o ToString(i - 1), colors[i],
                  SpreadPosition(i - 1, Len(colors)), undefined, undefined)]

\* `${n}` of a number
NumberToString(n) == IF n = NaN THEN "NaN" ELSE ToString(n)

\* s => `${s.color} ${s.position}%`
Segment(stop) == stop.color \o " " \o NumberToString(stop.position) \o "%"

RECURSIVE Join(_)
\* parts.join(', ')
Join(parts) ==
    IF parts = << >> THEN ""
    ELSE IF Len(parts) = 1 THEN parts[1]
    ELSE parts[1] \o ", " \o Join(Tail(parts))

\* the segments in the stored order
CssStops_Unsorted(stops) == Join([i \in Indices(stops) |-> Segment(stops[i])])

\* [...gradientConfig.stops].sort(...).map(...).join(', ')
CssStops(stops) ==
    LET sorted == SortStops(stops)
    IN  Join([i \in Indices(sorted) |-> Segment(sorted[i])])

CssTypes == {"linear", "radial", "conic"}

Css(config) ==
    IF config.type = "linear"
    THEN "background: linear-gradient(" \o NumberToString(config.angle)
            \o "deg, " \o CssStops(config.stops) \o ");"
    ELSE IF config.type = "radial"
    THEN "background: radial-gradient(circle, " \o CssStops(config.stops) \o ");"
    ELSE "background: conic-gradient(from " \o NumberToString(config.angle)
            \o "deg, " \o CssStops(config.stops) \o ");"

UnsupportedMessage ==
    "This complex gradient type (Mesh/Bezier/Noise) cannot be exported as simple CSS. Please download the PNG instead."

CopiedMessage == "CSS copied to clipboard!"

Formats == {"css", "png"}

\* no PNG file saved yet
NoFile == [width |-> 0, height |-> 0, image |-> << >>]

\* the else branch left out: the empty css goes to the clipboard
handleDownload_AnyType(format) ==
    /\ Mounted
    /\ IF format = "css"
       THEN /\ clipboard' = IF gradientConfig.type \in CssTypes
                            THEN Css(gradientConfig) ELSE ""
            /\ alerted' = CopiedMessage
            /\ UNCHANGED downloaded
       ELSE /\ downloaded' = canvas
            /\ alerted' = Null
            /\ UNCHANGED clipboard
    /\ NoPublish("handleDownload " \o format)
    /\ UNCHANGED <<state, analysisData, pending, onUpdate, rect, draggingId,
                   hoveredId, pointer, canvas>>

\* the Copy CSS and Download PNG buttons; document.querySelector('canvas')
\* is the canvas of the preview
handleDownload(format) ==
    /\ Mounted
    /\ IF format = "css"
       THEN IF gradientConfig.type \in CssTypes
            THEN /\ clipboard' = Css(gradientConfig)
                 /\ alerted' = CopiedMessage
                 /\ UNCHANGED downloaded
            ELSE /\ alerted' = UnsupportedMessage
                 /\ UNCHANGED <<clipboard, downloaded>>
       ELSE /\ downloaded' = canvas
            /\ alerted' = Null
            /\ UNCHANGED clipboard
    /\ NoPublish("handleDownload " \o format)
    /\ UNCHANGED <<state, analysisData, pending, onUpdate, rect, draggingId,
                   hoveredId, pointer, canvas>>

\* the <canvas> element a mount of GradientPreview creates
NewCanvas == [width |-> 300, height |-> 150, image |-> << >>]

\* GradientPreview leaves the page with the EDITING branch
Unmount ==
    /\ draggingId' = Null
    /\ hoveredId' = Null
    /\ canvas' = NewCanvas

\* GradientPreview enters the page: fresh state, the effect runs once
Mount ==
    /\ draggingId' = Null
    /\ hoveredId' = Null
    /\ \E d \in RandomStreams : canvas' = Painted(NewCanvas, render(d)')

RemoveAt(s, i) == SubSeq(s, 1, i - 1) \o SubSeq(s, i + 1, Len(s))

\* an upload at its await: has Start Over been pressed since it began, has
\* another file been uploaded since
Upload(file) == [file |-> file, abandoned |-> FALSE, superseded |-> FALSE]

Abandoned(uploads) == [i \in Indices(uploads) |-> [uploads[i] EXCEPT !.abandoned = TRUE]]

Superseded(uploads) == [i \in Indices(uploads) |-> [uploads[i] EXCEPT !.superseded = TRUE]]

\* handleFileUpload up to its await; the file input is on the IDLE page.
\* file = Null: the change event carried no file.
handleFileUpload(file) ==
    /\ state = "IDLE"
    /\ Len(pending) < MaxPending
    /\ IF file = Null
       THEN UNCHANGED <<state, pending>>
       ELSE /\ state' = "ANALYZING"
            /\ pending' = Append(Superseded(pending), Upload(file))
    /\ NoPublish("handleFileUpload")
    /\ alerted' = Null
    /\ UNCHANGED <<analysisData, clipboard, downloaded, onUpdate, rect,
                   draggingId, hoveredId, pointer, canvas>>

\* handleFileUpload from its await on, for the i-th upload in flight: a
\* result without a colour list throws at result.colors.map, after
\* setAnalysisData, and the catch block sets EDITING
handleFileUploadResumes(i) ==
    /\ i \in Indices(pending)
    /\ pending' = RemoveAt(pending, i)
    /\ LET result == analyzeImageColors(pending[i].file)
       IN  /\ analysisData' = result
           /\ IF "colors" \in DOMAIN result
              THEN Publish("handleFileUploadResumes",
                           [gradientConfig EXCEPT
                               !.stops = PaletteStops(result.colors)])
              ELSE NoPublish("handleFileUploadResumes")
    /\ state' = "EDITING"
    /\ alerted' = Null
    /\ UNCHANGED <<clipboard, downloaded, onUpdate, rect, pointer>>
    /\ IF state = "EDITING"
       THEN UNCHANGED <<draggingId, hoveredId>> /\ useEffect
       ELSE Mount

\* the Start Over button, shown outside IDLE
startOver ==
    /\ state # "IDLE"
    /\ state' = "IDLE"
    /\ NoPublish("startOver")
    /\ Unmount
    /\ alerted' = Null
    /\ pending' = Abandoned(pending)
    /\ UNCHANGED <<analysisData, clipboard, downloaded, onUpdate, rect, pointer>>

----------------------------------------------------------------------------
(* Specifications                                                          *)

\* The editor as App shows it after an analysis whose result carried no
\* colour list: state EDITING with the initial two stops untouched.
InitEditing ==
    /\ state = "EDITING"
    /\ gradientConfig = INITIAL_CONFIG
    /\ analysisData = NoAnalysis
    /\ pending = << >>
    /\ clipboard = ""
    /\ alerted = Null
    /\ downloaded = NoFile
    /\ onUpdate \in BOOLEAN
    /\ rect = [width |-> 200, height |-> 100]
    /\ draggingId = Null
    /\ hoveredId = Null
    /\ pointer = <<0, 0>>
    /\ canvas \in {render(d) : d \in RandomStreams}
    /\ lastOp = "mount"
    /\ emitted = 0
    /\ written = {}

\* The value mutators of the control panel, on the two initial stops.
ControlsNext ==
    \/ \E type \in TypeInputs : handleTypeChange(type)
    \/ \E value \in AngleInputs : handleAngleChange(value)
    \/ \E value \in NoiseInputs : handleNoiseChange(value)
    \/ \E id \in StopIds, newColor \in ColorInputs : handleColorChange(id, newColor)
    \/ \E id \in StopIds, newPos \in PositionInputs : handlePositionChange(id, newPos)

SpecControls == InitEditing /\ [][ControlsNext]_vars

\* Adding and removing stops.
StopsNext ==
    \/ \E id \in StopIds : removeStop(id)
    \/ \E newId \in RandomIds, xy \in RandomXY : addStop(newId, xy[1], xy[2])

SpecStops == InitEditing /\ [][StopsNext]_vars

\* The pointer handlers of the preview, interleaved with the controls that
\* change which anchors exist.  Dragging treats every non-spatial type
\* alike: linear stands for them.
DragTypeInputs == {"linear", "mesh", "gaussian"}
DragRandomIds == {"r1"}
DragRandomXY == {<<2000, 4000>>}
DragRemoveIds == {"r1"}

DragNext ==
    \/ \E type \in DragTypeInputs : handleTypeChange(type)
    \/ \E id \in StopIds \cap DragRemoveIds : removeStop(id)
    \/ \E newId \in DragRandomIds, xy \in DragRandomXY : addStop(newId, xy[1], xy[2])
    \/ PointerNext

SpecDrag == InitEditing /\ [][DragNext]_vars

\* What the canvas shows: every type and noise level, stops moved along the
\* timeline, anchors hovered (the pointer on anchors only).
RenderNoiseInputs == {0, 4, 10}
RenderPositionInputs == {50, 150}

RenderNext ==
    \/ \E type \in TypeInputs : handleTypeChange(type)
    \/ \E value \in RenderNoiseInputs : handleNoiseChange(value)
    \/ \E id \in StopIds, newPos \in RenderPositionInputs : handlePositionChange(id, newPos)
    \/ \E p \in AnchorPoints : handleMouseMove(p[1], p[2])
    \/ handleMouseLeave

SpecRender == InitEditing /\ [][RenderNext]_vars

\* Exporting: the stops moved along the timeline so that their order and
\* ties vary, under every type, each state exported both ways.
ExportPositionInputs == {150}

ExportNext ==
    \/ \E type \in TypeInputs : handleTypeChange(type)
    \/ \E id \in StopIds, newPos \in ExportPositionInputs : handlePositionChange(id, newPos)
    \/ \E format \in Formats : handleDownload(format)

SpecExport == InitEditing /\ [][ExportNext]_vars

\* the layout gives the canvas element a new size; no handler runs
resize(width, height) ==
    /\ Mounted
    /\ rect' = [width |-> width, height |-> height]
    /\ NoPublish("resize")
    /\ alerted' = Null
    /\ UNCHANGED <<state, analysisData, pending, clipboard, downloaded,
                   onUpdate, draggingId, hoveredId, pointer, canvas>>

\* The preview while the layout changes the size of the canvas element,
\* collapsed sizes among them.
RectSizes == {<<200, 100>>, <<100, 100>>, <<0, 100>>, <<200, 0>>}

ResizeNext ==
    \/ \E size \in RectSizes : resize(size[1], size[2])
    \/ \E type \in TypeInputs : handleTypeChange(type)
    \/ \E value \in RenderNoiseInputs : handleNoiseChange(value)

SpecResize == InitEditing /\ [][ResizeNext]_vars

\* The application from its first page: uploads, their analyses settling in
\* any order, Start Over, and the stop list edited in between.
InitApp ==
    /\ state = "IDLE"
    /\ gradientConfig = INITIAL_CONFIG
    /\ analysisData = NoAnalysis
    /\ pending = << >>
    /\ clipboard = ""
    /\ alerted = Null
    /\ downloaded = NoFile
    /\ onUpdate \in BOOLEAN
    /\ rect = [width |-> 200, height |-> 100]
    /\ draggingId = Null
    /\ hoveredId = Null
    /\ pointer = <<0, 0>>
    /\ canvas = NewCanvas
    /\ lastOp = "mount"
    /\ emitted = 0
    /\ written = {}

AppNext ==
    \/ \E file \in Files \cup {Null} : handleFileUpload(file)
    \/ \E i \in 1..MaxPending : handleFileUploadResumes(i)
    \/ startOver
    \/ \E id \in StopIds : removeStop(id)
    \/ \E newId \in DragRandomIds, xy \in DragRandomXY : addStop(newId, xy[1], xy[2])

SpecApp == InitApp /\ [][AppNext]_vars

\* Palettes laid out as anchors: uploads whose palettes have five and seven
\* colours, shown under the spatial types and hovered.
PaletteFiles == {"vivid", "offline"}

PaletteNext ==
    \/ \E file \in PaletteFiles : handleFileUpload(file)
    \/ \E i \in 1..MaxPending : handleFileUploadResumes(i)
    \/ startOver
    \/ \E type \in DragTypeInputs : handleTypeChange(type)
    \/ \E p \in AnchorPoints : handleMouseMove(p[1], p[2])

SpecPalette == InitApp /\ [][PaletteNext]_vars

\* Every kind of control interaction on one configuration: the value
\* mutators, adding and removing stops, and a drag.
PublishTypeInputs == {"mesh"}
PublishAngleInputs == {135}
PublishNoiseInputs == {10}
PublishColorInputs == {"#00ff00"}
PublishPositionInputs == {95}
PublishMovePoints == {<<10000, 5000>>}

PublishNext ==
    \/ \E type \in PublishTypeInputs : handleTypeChange(type)
    \/ \E value \in PublishAngleInputs : handleAngleChange(value)
    \/ \E value \in PublishNoiseInputs : handleNoiseChange(value)
    \/ \E id \in StopIds \cap DragRemoveIds, newColor \in PublishColorInputs :
          handleColorChange(id, newColor)
    \/ \E id \in StopIds \cap DragRemoveIds, newPos \in PublishPositionInputs :
          handlePositionChange(id, newPos)
    \/ \E id \in StopIds \cap DragRemoveIds : removeStop(id)
    \/ \E newId \in DragRandomIds, xy \in DragRandomXY : addStop(newId, xy[1], xy[2])
    \/ \E p \in AnchorPoints : handleMouseDown(p[1], p[2])
    \/ \E p \in PublishMovePoints : handleMouseMove(p[1], p[2])
    \/ handleMouseUp

SpecPublish == InitEditing /\ [][PublishNext]_vars

\* Uploads whose analysis goes well, answers without a colour list or fails,
\* abandoned by Start Over or not; every awaited analysis settles at some
\* time, which is when its continuation runs.
SettleFiles == {"photo", "garbled", "offline"}

SettleNext ==
    \/ \E file \in SettleFiles : handleFileUpload(file)
    \/ \E i \in 1..MaxPending : handleFileUploadResumes(i)
    \/ startOver
    \/ \E id \in StopIds \cap DragRemoveIds : removeStop(id)
    \/ \E newId \in DragRandomIds, xy \in DragRandomXY : addStop(newId, xy[1], xy[2])

SpecSettle ==
    /\ InitApp
    /\ [][SettleNext]_vars
    /\ WF_vars(\E i \in 1..MaxPending : handleFileUploadResumes(i))

----------------------------------------------------------------------------
(* Properties                                                              *)

stops == gradientConfig.stops

Spatial == IsSpatial(gradientConfig.type)

\* C1: starting from the two initial stops, every sequence of addStop and
\* removeStop leaves at least two stops, and removeStop on exactly two stops
\* publishes nothing and leaves the stops as they are.
C1_AtLeastTwoStops ==
    /\ [](Len(stops) >= 2)
    /\ [][lastOp' = "removeStop" /\ Len(stops) = 2
            => emitted' = 0 /\ gradientConfig' = gradientConfig]_vars

\* C2: whatever raw value the position and noise mutators are handed, the
\* published configuration has every position in [0,100] and noise in [0,1].
C2_PositionAndNoiseInRange ==
    /\ \A i \in Indices(stops) : stops[i].position >= 0 /\ stops[i].position <= 100
    /\ gradientConfig.noise >= 0 /\ gradientConfig.noise <= NoiseScale

\* C3: no two stops of a configuration share an id, and a handler that
\* keeps the number of stops keeps the id of every stop.
C3_UniqueIds ==
    /\ [](\A i, j \in Indices(stops) : i # j => stops[i].id # stops[j].id)
    /\ [][Len(stops') = Len(stops)
            => \A i \in Indices(stops) : stops'[i].id = stops[i].id]_vars

(* The hit test, stated from the anchors alone *)

Radius2 == (HitRadius * PxScale) * (HitRadius * PxScale)

Within(i, p) == Dist2(p[1], p[2], Anchor(i)) < Radius2

\* the greatest position whose anchor is nearer than the hit radius, or 0
TopmostWithin(p) ==
    LET S == {i \in Indices(stops) : Within(i, p)}
    IN  IF S = {} THEN 0 ELSE CHOOSE m \in S : \A k \in S : k <= m

TopmostId(p) == IF TopmostWithin(p) = 0 THEN Null ELSE stops[TopmostWithin(p)].id

Far(p) == \A i \in Indices(stops) : Dist2(p[1], p[2], Anchor(i)) > Radius2

OnAnchor(i) == pointer = <<Anchor(i).x, Anchor(i).y>>

\* Math.max(0, Math.min(1, v / size)) by cases
Clamped(v, size) ==
    IF v <= 0 THEN 0
    ELSE IF v >= size * PxScale THEN NormScale
    ELSE (v * NormScale) \div (size * PxScale)

C5_FarPointerClearsHover ==
    [][Spatial /\ Far(pointer') =>
          /\ lastOp' = "handleMouseDown" => draggingId' = draggingId
          /\ lastOp' = "handleMouseMove" => hoveredId' = Null]_vars

\* C5 amended: ... sets hoveredId to null on a pointer-move received while
\* nothing is dragged; a pointer-move while dragging leaves hoveredId alone.
C5_FarPointerClearsHoverUnlessDragging ==
    [][Spatial /\ Far(pointer') =>
          /\ lastOp' = "handleMouseDown" => draggingId' = draggingId
          /\ lastOp' = "handleMouseMove" /\ draggingId = Null => hoveredId' = Null
          /\ lastOp' = "handleMouseMove" /\ draggingId # Null => hoveredId' = hoveredId]_vars

C5_Witness ==
    /\ Spatial /\ lastOp = "handleMouseMove" /\ draggingId = Null
    /\ Far(pointer) /\ hoveredId = Null
    /\ \E i \in Indices(stops) : Dist2(pointer[1], pointer[2], Anchor(i)) < 4 * Radius2

\* C6: in a mesh or gaussian configuration, a pointer-down nearer than 30 px
\* to an anchor sets draggingId to the hit stop; one that hits no anchor leaves
\* draggingId, hoveredId and the configuration unchanged.
C6_PointerDownStartsDrag ==
    [][Spatial /\ lastOp' = "handleMouseDown" =>
          IF TopmostWithin(pointer') # 0
          THEN draggingId' = TopmostId(pointer')
          ELSE UNCHANGED <<draggingId, hoveredId, gradientConfig>>]_vars

\* the dragged stops moved to the pointer, everything else as it was
DraggedTo(p) ==
    /\ Len(stops') = Len(stops)
    /\ \A i \in Indices(stops) :
          IF stops[i].id = draggingId
          THEN stops'[i] = [stops[i] EXCEPT !.x = Clamped(p[1], rect.width),
                                            !.y = Clamped(p[2], rect.height)]
          ELSE stops'[i] = stops[i]
    /\ gradientConfig'.type = gradientConfig.type
    /\ gradientConfig'.angle = gradientConfig.angle
    /\ gradientConfig'.noise = gradientConfig.noise

ResolveSizes == {<<200, 100>>, <<100, 100>>, <<300, 150>>}

\* C8: after a drag to a pointer position that normalises to (nx, ny), the
\* anchor of the dragged stop resolves to (nx * w, ny * h) at every canvas
\* size, whatever its index, the stop count and the type; (0.5, 0.5) resolves
\* to the centre (w / 2, h / 2).
C8_DraggedAnchorResolves ==
    lastOp = "handleMouseMove" /\ emitted = 1 =>
        \A i \in Indices(stops) : stops[i].id = draggingId =>
            \A size \in ResolveSizes, total \in 1..6 : \A index \in 0..(total - 1) :
                LET w == size[1]
                    h == size[2]
                    nx == Clamped(pointer[1], rect.width)
                    ny == Clamped(pointer[2], rect.height)
                    coords == getStopCoords(stops[i], index, total, w, h)
                IN  /\ coords = [x |-> (nx * w * PxScale) \div NormScale,
                                 y |-> (ny * h * PxScale) \div NormScale]
                    /\ nx = NormScale \div 2 /\ ny = NormScale \div 2
                          => coords = [x |-> (w * PxScale) \div 2,
                                       y |-> (h * PxScale) \div 2]

\* a stop without coordinates of its own was dragged to the canvas centre
C8_Witness ==
    /\ lastOp = "handleMouseMove" /\ emitted = 1
    /\ pointer = <<(rect.width * PxScale) \div 2, (rect.height * PxScale) \div 2>>
    /\ \E i \in Indices(stops) :
          /\ stops[i].id = draggingId
          /\ stops[i].x = NormScale \div 2 /\ stops[i].y = NormScale \div 2
          /\ i >= 2

\* C9 (as stated): for every configuration with noise = 0 and a type other
\* than noise, a second render of the same configuration at the same size
\* leaves the pixels the canvas holds, whatever the random stream.
C9_RenderDeterministic ==
    (gradientConfig.noise = 0 /\ gradientConfig.type # "noise")
        => \A d \in RandomStreams : render(d) = canvas

Reproducible == gradientConfig.noise = 0 /\ gradientConfig.type \notin {"noise", "bezier"}

\* C9 (amended): for every configuration with noise = 0 and a type other
\* than noise and bezier, the canvas holds what a render of the present
\* configuration, size and highlighted anchor leaves whatever the random
\* stream: no value of the stream reaches the pixels.
C9_RenderDeterministicUnlessBezier ==
    Reproducible => \A d \in RandomStreams : render(d) = canvas

\* a mesh or gaussian canvas with a highlighted anchor redrawn at noise 0,
\* the effect having run after a published configuration
C9_Witness ==
    /\ Reproducible
    /\ Spatial
    /\ hoveredId # Null
    /\ emitted = 1
    /\ \E i \in Indices(canvas.image) : canvas.image[i].op = "handle glow"
    /\ \A d \in RandomStreams : render(d) = canvas

\* C10: pointer-up and pointer-leave set draggingId to null, pointer-leave
\* also hoveredId; while draggingId is null a pointer-move publishes nothing
\* and leaves the configuration alone, and draggingId is set again only by a
\* pointer-down that hits an anchor.
C10_UpAndLeaveEndDrag ==
    [][/\ lastOp' = "handleMouseUp" => draggingId' = Null /\ hoveredId' = hoveredId
       /\ lastOp' = "handleMouseLeave" => draggingId' = Null /\ hoveredId' = Null
       /\ lastOp' \in {"handleMouseUp", "handleMouseLeave"}
             => emitted' = 0 /\ gradientConfig' = gradientConfig
       /\ lastOp' = "handleMouseMove" /\ draggingId = Null
             => emitted' = 0 /\ gradientConfig' = gradientConfig /\ draggingId' = Null
       /\ draggingId = Null /\ draggingId' # Null
             => /\ lastOp' = "handleMouseDown"
                /\ TopmostWithin(pointer') # 0
                /\ draggingId' = TopmostId(pointer')]_vars

\* the pointer left the canvas in the middle of a drag, over a hovered anchor
C10_Witness ==
    /\ lastOp = "handleMouseLeave" /\ draggingId = Null /\ hoveredId = Null
    /\ Spatial
    /\ \E i \in Indices(stops) : stops[i].x # undefined /\ stops[i].x = Clamped(pointer[1], rect.width)

\* C11 as claimed: a pointer-move received while draggingId is null publishes
\* nothing and leaves the configuration alone; it sets hoveredId to the stop
\* the hit test of pointer-down returns for that position, to null when it
\* returns none.
C11_MoveUndraggedOnlyHovers ==
    [][lastOp' = "handleMouseMove" /\ draggingId = Null =>
          /\ emitted' = 0 /\ gradientConfig' = gradientConfig
          /\ draggingId' = Null
          /\ hoveredId' = IF Spatial THEN TopmostId(pointer') ELSE Null]_vars

\* C11 amended: ... under type mesh or gaussian it sets hoveredId so; under
\* any other type it leaves hoveredId as it was.
C11_MoveUndraggedHoversWhenSpatial ==
    [][lastOp' = "handleMouseMove" /\ draggingId = Null =>
          /\ emitted' = 0 /\ gradientConfig' = gradientConfig
          /\ draggingId' = Null
          /\ hoveredId' = IF Spatial THEN TopmostId(pointer') ELSE hoveredId]_vars

\* a hover that found an anchor, in a preview given an update handler, with
\* stops that were dragged before
C11_Witness ==
    /\ lastOp = "handleMouseMove" /\ draggingId = Null /\ emitted = 0
    /\ Spatial /\ onUpdate
    /\ hoveredId # Null /\ hoveredId = TopmostId(pointer)
    /\ \E i \in Indices(stops) : stops[i].id # hoveredId /\ stops[i].x = 0

\* C12: while the type is not mesh or gaussian, a pointer-down or a
\* pointer-move publishes nothing and leaves draggingId, hoveredId and the
\* configuration as they were, wherever the pointer is and whatever x, y the
\* stops carry.
C12_NonSpatialPointerInert ==
    [][~Spatial /\ lastOp' \in {"handleMouseDown", "handleMouseMove"} =>
          /\ emitted' = 0 /\ gradientConfig' = gradientConfig
          /\ draggingId' = draggingId /\ hoveredId' = hoveredId]_vars

\* under a non-spatial type, a press exactly where a stop's own x, y lie, in
\* a preview given an update handler
C12_Witness ==
    /\ ~Spatial /\ lastOp = "handleMouseDown" /\ onUpdate
    /\ draggingId = Null /\ hoveredId = Null
    /\ \E i \in Indices(stops) :
          /\ stops[i].x # undefined
          /\ pointer = <<ExplicitCoords(stops[i], rect.width, rect.height).x,
                         ExplicitCoords(stops[i], rect.width, rect.height).y>>

\* C19: in every reachable state of the application, also after an analysis
\* has replaced the stop list by its palette, whatever the palette's length,
\* the configuration has at least two stops.
C19_AtLeastTwoStopsAfterPalette == Len(stops) >= 2

\* C13: addStop appends exactly one stop, at the end of the list, whose
\* position is min(p + 10, 100) for p the position of the last stop before
\* the call; the stops that were there, the type, the angle and the noise
\* stay as they were.
C13_AddStopAppendsOne ==
    [][lastOp' = "addStop" =>
          /\ emitted' = 1
          /\ Len(stops') = Len(stops) + 1
          /\ SubSeq(stops', 1, Len(stops)) = stops
          /\ LET p == stops[Len(stops)].position
             IN  stops'[Len(stops')].position =
                    IF p = NaN THEN NaN ELSE IF p + 10 < 100 THEN p + 10 ELSE 100
          /\ gradientConfig'.type = gradientConfig.type
          /\ gradientConfig'.angle = gradientConfig.angle
          /\ gradientConfig'.noise = gradientConfig.noise]_vars

\* C14: for a stop that has both x and y, getStopCoords returns
\* (x * width, y * height) at every index, total and size, under each type;
\* for stops that lack them the result is the same whichever stop is passed:
\* it depends on the index, the total, the type and the size only.
HasXY(stop) == stop.x # undefined /\ stop.y # undefined

C14_AnchorResolver ==
    \A i \in Indices(stops) :
        \A size \in ResolveSizes, total \in 1..6 : \A index \in 0..(total - 1) :
            LET w == size[1]
                h == size[2]
                coords == getStopCoords(stops[i], index, total, w, h)
            IN  IF HasXY(stops[i])
                THEN coords = [x |-> (stops[i].x * w * PxScale) \div NormScale,
                               y |-> (stops[i].y * h * PxScale) \div NormScale]
                ELSE \A j \in Indices(stops) :
                        ~HasXY(stops[j]) =>
                            getStopCoords(stops[j], index, total, w, h) = coords

\* the hit test has resolved a hovered stop to coordinates of its own that
\* differ from the default of its index, next to a stop that has none
C14_Witness ==
    /\ Spatial /\ lastOp = "handleMouseMove" /\ hoveredId # Null
    /\ \E i, j \in Indices(stops) :
          /\ stops[i].id = hoveredId /\ HasXY(stops[i])
          /\ Anchor(i) # DefaultCoords(i - 1, Len(stops), rect.width, rect.height)
          /\ <<Anchor(i).x, Anchor(i).y>> = pointer
          /\ ~HasXY(stops[j]) /\ stops[j].id # stops[i].id

\* C15: for linear, radial and conic the exported style string lists one
\* "<color> <position>%" segment per stop, in ascending order of position
\* and, among equal positions, in the stored order, with the colour and the
\* position as stored; exporting leaves the stored stops as they are.
RankOf(i) ==
    1 + Cardinality({j \in Indices(stops) :
                        \/ stops[j].position < stops[i].position
                        \/ stops[j].position = stops[i].position /\ j < i})

StopOfRank(k) == stops[CHOOSE i \in Indices(stops) : RankOf(i) = k]

ExpectedSegments ==
    [k \in Indices(stops) |->
        StopOfRank(k).color \o " " \o ToString(StopOfRank(k).position) \o "%"]

Heads ==
    {"background: linear-gradient(" \o ToString(gradientConfig.angle) \o "deg, ",
     "background: radial-gradient(circle, ",
     "background: conic-gradient(from " \o ToString(gradientConfig.angle) \o "deg, "}

C15_StyleStringListsStopsInOrder ==
    [][lastOp' = "handleDownload css" /\ gradientConfig.type \in CssTypes =>
          /\ \E head \in Heads :
                clipboard' = head \o Join(ExpectedSegments) \o ");"
          /\ gradientConfig' = gradientConfig]_vars

\* exported with the first stored stop moved behind the second
C15_Witness ==
    /\ lastOp = "handleDownload css" /\ gradientConfig.type = "conic"
    /\ Len(stops) = 2 /\ stops[1].position > stops[2].position
    /\ clipboard = "background: conic-gradient(from 135deg, #FF5A19 100%, #111111 150%);"

\* C16: asked for the style string of a mesh, gaussian, bezier or noise
\* configuration, handleDownload answers that the type is not supported:
\* nothing is written to the clipboard, and the configuration and the state
\* of the application stay as they were.
C16_UnsupportedTypeNotExported ==
    [][lastOp' = "handleDownload css" /\ gradientConfig.type \notin CssTypes =>
          /\ alerted' = UnsupportedMessage
          /\ clipboard' = clipboard
          /\ gradientConfig' = gradientConfig
          /\ UNCHANGED <<state, analysisData, pending, downloaded, draggingId,
                         hoveredId, canvas>>]_vars

\* refused under bezier while the clipboard holds an earlier export
C16_Witness ==
    /\ lastOp = "handleDownload css" /\ gradientConfig.type = "bezier"
    /\ alerted = UnsupportedMessage
    /\ clipboard = "background: linear-gradient(135deg, #111111 0%, #FF5A19 100%);"

\* C17 (as stated): the grain pass runs exactly when noise > 0 and the type
\* is not noise; when it runs, R, G and B of each pixel change by at most
\* noise * 20 and stay in 0..255, and alpha is unchanged; when it does not
\* run, the canvas is as the type's pass (and the overlay after it) left it.
GrainOps == {k \in Indices(canvas.image) : canvas.image[k].op = "grain"}

GrainRan == GrainOps # {}

Abs(v) == IF v < 0 THEN -v ELSE v

\* the largest change of R, G or B, in 1/1000, the grain on the canvas makes
\* of pixel
GrainChange(pixel) ==
    LET changes == {Abs(GrainPixel(pixel, canvas.image[k].nums[1])[c] - pixel[c]) * 1000 :
                        k \in GrainOps, c \in 1..3}
    IN  CHOOSE m \in changes \cup {0} : \A n \in changes : n <= m

GrainKeepsRangeAndAlpha ==
    \A k \in GrainOps, pixel \in PixelSamples :
        LET q == GrainPixel(pixel, canvas.image[k].nums[1])
        IN  /\ \A c \in 1..3 : q[c] \in 0..255
            /\ q[4] = pixel[4]

\* the canvas of a run without grain
Ungrained ==
    \E d \in RandomStreams :
        LET typePass == TypePass(SortStops(stops), d)
        IN  canvas.image = << DrawOp("clearRect", << >>, << >>) >>
                \o (IF HasThrown(typePass) THEN typePass ELSE typePass \o HandlesPass)

Collapsed == rect.width = 0 \/ rect.height = 0

C18_ZeroSizeRenderIsNoOp ==
    [][emitted' = 1 =>
          IF Collapsed'
          THEN canvas' = canvas
          ELSE /\ canvas'.width = rect'.width * devicePixelRatio
               /\ canvas'.height = rect'.height * devicePixelRatio
               /\ canvas'.image[1].op = "clearRect"
               /\ ~HasThrown(canvas'.image)
               /\ \E d \in RandomStreams : canvas' = render(d)']_vars

\* a type published while the element is collapsed: the canvas still holds
\* the 100 x 100 picture of an earlier type
C18_Witness ==
    /\ lastOp = "handleTypeChange" /\ emitted = 1
    /\ Collapsed
    /\ gradientConfig.type = "conic"
    /\ canvas.width = 100 * devicePixelRatio
    /\ \E k \in Indices(canvas.image) : canvas.image[k].op = "radial"

\* C20: the hit test goes through the stops from the last drawn to the
\* first: when the anchors of several stops are nearer than 30 px to the
\* pointer, a pointer-down that runs the hit test takes the stop of greatest
\* index among them for dragging, and a pointer-move while nothing is dragged
\* takes it for hovering.
SeveralWithin(p) == Cardinality({i \in Indices(stops) : Within(i, p)}) >= 2

InsideCanvas(coords) ==
    /\ 0 <= coords.x /\ coords.x <= rect.width * PxScale
    /\ 0 <= coords.y /\ coords.y <= rect.height * PxScale

C21_MeshDefaultAnchorsInside ==
    gradientConfig.type = "mesh" =>
        \A i \in Indices(stops) :
            ~HasXY(stops[i]) =>
                /\ InsideCanvas(Anchor(i))
                /\ i - 1 >= 4 => Anchor(i).x = (rect.width * PxScale) \div 2

\* C22: under the noise type the perturbation pass goes over every pixel of
\* the canvas buffer, width * devicePixelRatio by height * devicePixelRatio,
\* keeps R, G and B of each in 0..255 and leaves alpha as it was.
PerturbOps == {k \in Indices(canvas.image) : canvas.image[k].op = "perturb"}

C22_NoisePerturbsWholeBuffer ==
    gradientConfig.type = "noise" =>
        \A k \in PerturbOps :
            LET nums == canvas.image[k].nums
            IN  /\ nums[2] = canvas.width /\ nums[3] = canvas.height
                /\ \A pixel \in PixelSamples :
                      LET q == GrainPixel(pixel, nums[1] * 100)
                      IN  /\ \A c \in 1..3 : q[c] \in 0..255
                          /\ q[4] = pixel[4]

\* C23: the control interactions (colour, position, add, remove, type,
\* angle, noise, drag) change the configuration by publishing a new value
\* and by nothing else: the handler assigns to no part of the configuration
\* it was given, whose stop array and stop records are after the operation
\* what they were before it.
ControlOps ==
    {"handleColorChange", "handlePositionChange", "addStop", "removeStop",
     "handleTypeChange", "handleAngleChange", "handleNoiseChange",
     "handleMouseMove"}

ValueOps ==
    {"handleColorChange", "handlePositionChange", "handleTypeChange",
     "handleAngleChange", "handleNoiseChange"}

Settles(i) ==
    /\ i \in Indices(pending)
    /\ lastOp' = "handleFileUploadResumes"
    /\ pending' = RemoveAt(pending, i)

\* C24: the completion of an analysis that was started before Start Over was
\* pressed changes neither the app state (which stays IDLE until the next
\* upload), nor the stops, nor the analysis data.
C24_AbandonedAnalysisInert ==
    [][\A i \in 1..MaxPending :
          Settles(i) /\ pending[i].abandoned =>
              /\ state' = state
              /\ stops' = stops
              /\ analysisData' = analysisData]_vars

\* C25: with two analyses awaited at once, the stops and the analysis data
\* after both have completed are those of the later upload: an analysis that
\* completes after the analysis of a later upload has completed changes
\* neither.
C25_LatestUploadWins ==
    [][\A i \in 1..MaxPending :
          /\ Settles(i)
          /\ \A j \in Indices(pending) : pending[j].superseded
          => /\ stops' = stops
             /\ analysisData' = analysisData]_vars

\* C26: an upload that has put the app in ANALYZING leads to EDITING when its
\* analysis settles, however it settles; when the analysis failed the stops
\* are then the five colours of the fallback palette at 0, 25, 50, 75 and
\* 100, and the failure is not thrown to handleFileUpload.
FallbackPositions == << 0, 25, 50, 75, 100 >>

FallbackStops ==
    [i \in 1..5 |->
        [id |-> "gen-" \o ToString(i - 1), color |-> Fallback.colors[i],
         position |-> FallbackPositions[i], x |-> undefined, y |-> undefined]]

C27_DraggedStopPresent ==
    draggingId # Null => draggingId \in StopIds

====
